---- MODULE Spec2Model ----
(***************************************************************************)
(* A model of strokes.py: the curriculum generator gen_images, the cell    *)
(* cache get_image, the page layout gen_svg, and the driver main with the  *)
(* /gen handler that calls it.                                             *)
(*                                                                         *)
(* Python strings are sequences of one-character strings; a Python dict is *)
(* a function whose DOMAIN is its key set; the working directory is the    *)
(* function fs from file name to file content.                             *)
(***************************************************************************)
EXTENDS Integers, Sequences, FiniteSets, TLC

(* ------------------------------ bounds --------------------------------- *)

\* longest target list (the string C of main) that is explored with a cell
\* size given in the /gen form
MaxLen == 2
\* longest target list explored with the default cell sizes, whose pages have
\* 580 cells (/gen) and 330 cells (command line)
MaxLenDefault == 1

(* ------------------------- program constants --------------------------- *)

PAGE_W == 200
PAGE_H == 300
\* the literal 99 used for "no upper bound" in gen_images
NO_UPPER_BOUND == 99
\* range(3) of both drill steps, range(10) of the review phase
REPS == 3
REVIEWS == 10
\* stroke widths chosen in get_image
HEAVY == 20
NORMAL == 10
\* size used by /gen when the form has none
DEFAULT_SIZE == 10

(* ----------------------- Python integer arithmetic --------------------- *)

Abs(n) == IF n < 0 THEN -n ELSE n

\* a // b of Python (floor division), b # 0
FloorDiv(a, b) ==
  LET q == Abs(a) \div Abs(b)
      exact == (Abs(a) % Abs(b)) = 0
  IN  IF (a < 0) = (b < 0) \/ a = 0 THEN q
      ELSE IF exact THEN -q ELSE -q - 1

\* a % b of Python: the remainder has the sign of b
PyMod(a, b) == a - b * FloorDiv(a, b)

(* ----------------------------- formatting ------------------------------ *)

DigitChars == <<"0", "1", "2", "3", "4", "5", "6", "7", "8", "9">>

RECURSIVE Dec(_)
\* '%d' % n
Dec(n) ==
  IF n < 0 THEN <<"-">> \o Dec(-n)
  ELSE IF n < 10 THEN <<DigitChars[n + 1]>>
  ELSE Dec(n \div 10) \o <<DigitChars[(n % 10) + 1]>>

DigitValue(c) == CHOOSE d \in 0..9 : DigitChars[d + 1] = c

RECURSIVE ParseNat(_)
ParseNat(s) ==
  IF Len(s) = 0 THEN 0
  ELSE 10 * ParseNat(SubSeq(s, 1, Len(s) - 1)) + DigitValue(s[Len(s)])

\* int(s) for a decimal string with an optional sign
ParseInt(s) ==
  IF s[1] = "-" THEN -ParseNat(Tail(s)) ELSE ParseNat(s)

(* ------------------------------- stores -------------------------------- *)

\* The records of a graphics.txt: character and its strokes.  "e" is a
\* record with no strokes, "h" one with a stroke more than the literal 99
\* counts.
Graphics ==
  << [character |-> "a", strokes |-> <<"a0", "a1">>],
     [character |-> "b", strokes |-> <<"b0">>],
     [character |-> "e", strokes |-> <<>>],
     [character |-> "q", strokes |-> <<"q0">>],
     [character |-> "h",
      strokes |-> [k \in 1..(NO_UPPER_BOUND + 1) |-> <<"h", k - 1>>]] >>

\* The records of a dictionary.txt: character and its pinyin readings.
\* "q" has no reading; "z" has a reading but no record in Graphics.
Dictionary ==
  << [character |-> "a", pinyin |-> <<"A1", "A2">>],
     [character |-> "b", pinyin |-> <<"B1">>],
     [character |-> "e", pinyin |-> <<"E1">>],
     [character |-> "q", pinyin |-> <<>>],
     [character |-> "h", pinyin |-> <<"H1">>],
     [character |-> "z", pinyin |-> <<"Z1">>] >>

\* the characters a target list is drawn from
Chars == {"a", "b", "e", "X", "q", "z"}

\* d[k] = v on a dict
DictSet(d, k, v) == [x \in DOMAIN d \cup {k} |-> IF x = k THEN v ELSE d[x]]

RECURSIVE LoadStrokes(_, _)
LoadStrokes(recs, d) ==
  IF Len(recs) = 0 THEN d
  ELSE LoadStrokes(Tail(recs), DictSet(d, Head(recs).character, Head(recs).strokes))

EmptyDict == [x \in {} |-> <<>>]

load_strokes_db == DictSet(LoadStrokes(Graphics, EmptyDict), "X", <<>>)

RECURSIVE LoadPinyin(_, _)
LoadPinyin(recs, d) ==
  IF Len(recs) = 0 THEN d
  ELSE LoadPinyin(Tail(recs),
                  IF Len(Head(recs).pinyin) > 0
                  THEN DictSet(d, Head(recs).character, Head(recs).pinyin[1])
                  ELSE d)

load_dictionary == DictSet(LoadPinyin(Dictionary, EmptyDict), "X", "")

(* --------------------------- the file system --------------------------- *)

Range(s) == {s[k] : k \in 1..Len(s)}

\* open(name, 'w') followed by writes that leave `content` in the file
FsWrite(files, name, content) ==
  [f \in DOMAIN files \cup {name} |-> IF f = name THEN content ELSE files[f]]

\* os.unlink of every name in S (all of them exist)
FsUnlink(files, S) == [f \in DOMAIN files \ S |-> files[f]]

(* ------------------------------ get_image ------------------------------ *)

\* a file name that leaves skip_strokes out
Fname_no_skip(C, img_num, skip_strokes, stop_at) ==
  <<C>> \o Dec(img_num) \o <<"-">> \o Dec(stop_at) \o <<".svg">>

\* C + '%d-%d-%d.svg' % (img_num, skip_strokes, stop_at)
Fname(C, img_num, skip_strokes, stop_at) ==
  <<C>> \o Dec(img_num) \o <<"-">> \o Dec(skip_strokes) \o <<"-">>
        \o Dec(stop_at) \o <<".svg">>

\* 20 if n - 1 < img_num else 10
LineSize(n, img_num) == IF n - 1 < img_num THEN HEAVY ELSE NORMAL

\* the enumerate loop of get_image: the strokes written, with their widths;
\* n is the 0-based stroke index
Paths(strokes, img_num, skip_strokes, stop_at) ==
  LET shown == SelectSeq([k \in 1..Len(strokes) |-> k - 1],
                         LAMBDA n : ~(n < skip_strokes \/ n >= stop_at))
  IN  [k \in 1..Len(shown) |->
         [n |-> shown[k], d |-> strokes[shown[k] + 1],
          width |-> LineSize(shown[k], img_num)]]

\* what get_image writes into the cell file
CellContent(img_num, strokes, skip_strokes, stop_at, add_text) ==
  [text |-> add_text, paths |-> Paths(strokes, img_num, skip_strokes, stop_at)]

\* get_image without the `if fname in images` test: every call renders
get_image_uncached(C, img_num, images, strokes, skip_strokes, stop_at, add_text, files) ==
  LET fname == Fname(C, img_num, skip_strokes, stop_at)
  IN  [fname |-> fname,
       images |-> Append(images, fname),
       files |-> FsWrite(files, fname,
                         CellContent(img_num, strokes, skip_strokes,
                                     stop_at, add_text)),
       wrote |-> TRUE]

\* get_image: the name returned, the manifest and the files afterwards, and
\* whether the file was written by this call
get_image(C, img_num, images, strokes, skip_strokes, stop_at, add_text, files) ==
  LET fname == Fname(C, img_num, skip_strokes, stop_at)
  IN  IF fname \in Range(images)
      THEN [fname |-> fname, images |-> images, files |-> files, wrote |-> FALSE]
      ELSE [fname |-> fname,
            images |-> Append(images, fname),
            files |-> FsWrite(files, fname,
                              CellContent(img_num, strokes, skip_strokes,
                                          stop_at, add_text)),
            wrote |-> TRUE]

(* ------------------------------ gen_images ----------------------------- *)

\* A generator frame is suspended at "start" (not yet pulled), at the yield
\* of the first drill step ("y1"), of the second ("y2") or of the review
\* phase ("y3").  ci is the 1-based position in chars, i the loop variable
\* of the enclosing range, rep the repetition counter.
GenStart == [at |-> "start", ci |-> 0, i |-> 0, rep |-> 0]

RECURSIVE ForChars_no_empty_pass(_, _, _)
\* the `for C in chars` loop entering the drill of a character without
\* strokes as if it had one
ForChars_no_empty_pass(chars, db, ci) ==
  IF ci > Len(chars) THEN [at |-> "y3", ci |-> 0, i |-> 0, rep |-> 0]
  ELSE IF chars[ci] \notin DOMAIN db THEN [at |-> "KeyError", ci |-> ci, i |-> 0, rep |-> 0]
  ELSE [at |-> "y1", ci |-> ci, i |-> 0, rep |-> 0]

RECURSIVE ForChars(_, _, _)
\* the `for C in chars` loop entered (or continued) at position ci: the next
\* yield it runs to, or the KeyError of strokes_db[C]
ForChars(chars, db, ci) ==
  IF ci > Len(chars) THEN [at |-> "y3", ci |-> 0, i |-> 0, rep |-> 0]
  ELSE IF chars[ci] \notin DOMAIN db THEN [at |-> "KeyError", ci |-> ci, i |-> 0, rep |-> 0]
  ELSE IF Len(db[chars[ci]]) = 0 THEN ForChars(chars, db, ci + 1)
  ELSE [at |-> "y1", ci |-> ci, i |-> 0, rep |-> 0]

\* next() with a review phase that runs one request too long
Resume_long_review(g, chars, db) ==
  CASE g.at = "start" -> ForChars(chars, db, 1)
    [] g.at = "y1" ->
         IF g.rep + 1 < REPS THEN [g EXCEPT !.rep = g.rep + 1]
         ELSE [g EXCEPT !.at = "y2", !.rep = 0]
    [] g.at = "y2" ->
         IF g.rep + 1 < REPS THEN [g EXCEPT !.rep = g.rep + 1]
         ELSE IF g.i + 1 < Len(db[chars[g.ci]])
              THEN [g EXCEPT !.at = "y1", !.i = g.i + 1, !.rep = 0]
              ELSE ForChars(chars, db, g.ci + 1)
    [] g.at = "y3" ->
         IF g.i + 1 <= REVIEWS THEN [g EXCEPT !.i = g.i + 1]
         ELSE ForChars(chars, db, 1)

\* next(): run the frame g to its next yield
Resume(g, chars, db) ==
  CASE g.at = "start" -> ForChars(chars, db, 1)
    [] g.at = "y1" ->
         IF g.rep + 1 < REPS THEN [g EXCEPT !.rep = g.rep + 1]
         ELSE [g EXCEPT !.at = "y2", !.rep = 0]
    [] g.at = "y2" ->
         IF g.rep + 1 < REPS THEN [g EXCEPT !.rep = g.rep + 1]
         ELSE IF g.i + 1 < Len(db[chars[g.ci]])
              THEN [g EXCEPT !.at = "y1", !.i = g.i + 1, !.rep = 0]
              ELSE ForChars(chars, db, g.ci + 1)
    [] g.at = "y3" ->
         IF g.i + 1 < REVIEWS THEN [g EXCEPT !.i = g.i + 1]
         ELSE ForChars(chars, db, 1)

\* the first cell of a character's drill taking a random character
DrillChoices_any(g, chars) ==
  IF g.at = "y1" /\ g.i = 0 /\ g.rep = 0 THEN Range(chars) ELSE {chars[g.ci]}

\* the character of a drill cell: the loop variable of "for C in chars"
DrillChoices(g, chars) == {chars[g.ci]}

\* every review cell taking the first character of the list
ReviewChoices_first(chars) == IF chars = <<>> THEN {} ELSE {chars[1]}

\* the characters random.choice(chars) may return
ReviewChoices(chars) == Range(chars)

\* the review phase falling back to the placeholder for an empty list
Choices_placeholder(g, chars) ==
  IF chars = <<>> THEN {"X"}
  ELSE IF g.at = "y3" THEN ReviewChoices(chars) ELSE DrillChoices(g, chars)

\* the characters the yield at g may be about: chars[ci] in the drill,
\* random.choice(chars) in the review phase
Choices(g, chars) ==
  IF g.at = "y3" THEN ReviewChoices(chars) ELSE DrillChoices(g, chars)

\* the arguments with the second drill step skipping i strokes, not i + 1
Request_skip_i(g, C, db) ==
  CASE g.at = "y1" -> [C |-> C, img_num |-> g.i, strokes |-> db[C],
                       skip_strokes |-> 0, stop_at |-> g.i + 1]
    [] g.at = "y2" -> [C |-> C, img_num |-> 0, strokes |-> db[C],
                       skip_strokes |-> g.i, stop_at |-> NO_UPPER_BOUND]
    [] g.at = "y3" -> [C |-> C, img_num |-> 0, strokes |-> <<>>,
                       skip_strokes |-> NO_UPPER_BOUND, stop_at |-> NO_UPPER_BOUND]

\* the arguments of the get_image call at the yield g, for character C
Request(g, C, db) ==
  CASE g.at = "y1" -> [C |-> C, img_num |-> g.i, strokes |-> db[C],
                       skip_strokes |-> 0, stop_at |-> g.i + 1]
    [] g.at = "y2" -> [C |-> C, img_num |-> 0, strokes |-> db[C],
                       skip_strokes |-> g.i + 1, stop_at |-> NO_UPPER_BOUND]
    [] g.at = "y3" -> [C |-> C, img_num |-> 0, strokes |-> <<>>,
                       skip_strokes |-> NO_UPPER_BOUND, stop_at |-> NO_UPPER_BOUND]

(* ------------------------------- gen_svg ------------------------------- *)

num_per_row(size) == FloorDiv(PAGE_W, size)
num_rows(size) == FloorDiv(PAGE_H, size)
\* the argument of range() in the loop of gen_svg
NumCells(size) == num_per_row(size) * (num_rows(size) - 1)

RECURSIVE Header_no_separator(_, _)
\* the header entries concatenated without ', '
Header_no_separator(chars, P) ==
  IF Len(chars) = 0 THEN <<>>
  ELSE LET c == chars[Len(chars)]
           entry == <<c, " (", P[c], ")">>
       IN  Header_no_separator(SubSeq(chars, 1, Len(chars) - 1), P) \o entry

RECURSIVE Header(_, _)
\* ', '.join('%s (%s)' % (c, P[c]) for c in chars), as its pieces
Header(chars, P) ==
  IF Len(chars) = 0 THEN <<>>
  ELSE LET c == chars[Len(chars)]
           entry == <<c, " (", P[c], ")">>
       IN  IF Len(chars) = 1 THEN entry
           ELSE Header(SubSeq(chars, 1, Len(chars) - 1), P) \o <<", ">> \o entry

\* the slot without the row kept for the header
Placement_no_header_row(i, size) ==
  [x |-> PyMod(i, num_per_row(size)) * size,
   y |-> FloorDiv(i, num_per_row(size)) * size,
   w |-> size, h |-> size]

\* IMAGE_TPL % (x, y, size, size, fname): the slot of loop index i
Placement(i, size) ==
  [x |-> PyMod(i, num_per_row(size)) * size,
   y |-> (FloorDiv(i, num_per_row(size)) + 1) * size,
   w |-> size, h |-> size]

(* -------------------------------- state -------------------------------- *)

\* the requests served by one process: a command-line run is the only one;
\* /gen requests may overlap
Runs == {1, 2}

\* fs:  the working directory: file name -> content
\* cur: the coroutine that is running (0: the event loop is idle)
\* req: per run, how it is invoked (command line or /gen form)
\* run: per run, the frame of main/gen_svg/gen_images and its history
VARIABLES fs, cur, req, run

vars == <<fs, cur, req, run>>

\* the default of --size
CLI_DEFAULT_SIZE == 13

\* the target lists explored: every string over Chars up to MaxLen
RECURSIVE Strings(_)
Strings(n) ==
  IF n = 0 THEN {<<>>}
  ELSE LET shorter == Strings(n - 1)
       IN  shorter \cup {Append(s, c) : s \in {t \in shorter : Len(t) = n - 1}, c \in Chars}

\* the sizes a /gen form carries; '' or a missing field is <<>>
FormSizes == {Dec(n) : n \in {-150, 0, 30, 100, 150, 201}}
\* --size on the command line: absent, or the string given
CliSizes == {<<>>, Dec(60)}

CliRequests ==
  [via : {"cli"}, chars : Strings(MaxLenDefault), size : CliSizes,
   no_delete : BOOLEAN, no_pdf : BOOLEAN]

\* gen() hands main no_delete = no_pdf = False
GenRequests ==
  [via : {"gen"}, chars : Strings(MaxLen), size : FormSizes,
   no_delete : {FALSE}, no_pdf : {FALSE}]
  \cup
  [via : {"gen"}, chars : Strings(MaxLenDefault), size : {<<>>},
   no_delete : {FALSE}, no_pdf : {FALSE}]

NoRequest ==
  [via |-> "none", chars |-> <<>>, size |-> <<>>, no_delete |-> FALSE, no_pdf |-> FALSE]

\* a frame whose manifest is not reset by gen_svg: it still lists a cell of
\* an earlier page
Fresh_stale_manifest(pc) ==
  [pc |-> pc,
   C |-> <<>>, size |-> 0, size_is_int |-> TRUE,
   no_delete |-> FALSE, no_pdf |-> FALSE,
   svg_path |-> <<>>,
   images |-> <<Fname("a", 0, 0, 1)>>,
   g |-> GenStart,           \* the frame of gen_images
   i |-> 0,                  \* loop variable of gen_svg = cells placed
   pulls |-> 0,              \* next() calls made
   refs |-> EmptyDict,       \* history: cache key -> what its first request
                             \*   returned, and whether that call rendered
   writes |-> <<>>,          \* history: cache keys rendered, in order
   last |-> [key |-> <<>>, fname |-> <<>>, wrote |-> FALSE, kind |-> "none"],
   trace |-> <<>>,           \* history: the key of every request, with "?"
                             \*   for the character of a review request
   converted |-> FALSE,      \* gen_pdf has returned
   missing |-> {},           \* history: files the browser did not find
   deleted |-> {},           \* history: files this run unlinked
   error |-> "none",
   status |-> 0]             \* HTTP status of a /gen response

\* the frame of a run before main is entered
Fresh(pc) ==
  [pc |-> pc,
   C |-> <<>>, size |-> 0, size_is_int |-> TRUE,
   no_delete |-> FALSE, no_pdf |-> FALSE,
   svg_path |-> <<>>,
   images |-> <<>>,          \* the manifest
   g |-> GenStart,           \* the frame of gen_images
   i |-> 0,                  \* loop variable of gen_svg = cells placed
   pulls |-> 0,              \* next() calls made
   refs |-> EmptyDict,       \* history: cache key -> what its first request
                             \*   returned, and whether that call rendered
   writes |-> <<>>,          \* history: cache keys rendered, in order
   last |-> [key |-> <<>>, fname |-> <<>>, wrote |-> FALSE, kind |-> "none"],
   trace |-> <<>>,           \* history: the key of every request, with "?"
                             \*   for the character of a review request
   converted |-> FALSE,      \* gen_pdf has returned
   missing |-> {},           \* history: files the browser did not find
   deleted |-> {},           \* history: files this run unlinked
   error |-> "none",
   status |-> 0]             \* HTTP status of a /gen response

Init ==
  /\ fs = EmptyDict
  /\ cur = 0
  /\ \E q \in CliRequests \cup GenRequests : req = [r \in Runs |-> IF r = 1 THEN q ELSE NoRequest]
  /\ run = [r \in Runs |-> IF r = 1 THEN Fresh("idle") ELSE Fresh("absent")]

(* -------------------------- main and /gen ------------------------------ *)

\* the target list handed to main without `or 'X'`
ArgC_no_placeholder(q) == q.chars

\* parse_argv / gen(): the arguments main is called with
ArgC(q) == IF q.via = "gen" /\ q.chars = <<>> THEN <<"X">> ELSE q.chars
ArgSizeIsInt(q) == q.via = "gen" \/ q.size = <<>>
ArgSize(q) ==
  IF q.via = "gen" THEN (IF q.size = <<>> THEN DEFAULT_SIZE ELSE ParseInt(q.size))
  ELSE CLI_DEFAULT_SIZE

\* the composite file while gen_svg writes it: the header text once written,
\* the slots in order; of the hrefs, each by first use and the last one
NewPage == [title |-> <<>>, slots |-> <<>>, hrefs |-> <<>>, last |-> <<>>, footer |-> FALSE]

\* an exception leaves main (and gen): the coroutine ends
Raise(f, err, via) ==
  [f EXCEPT !.pc = "failed", !.error = err,
            !.status = IF via = "gen" THEN 500 ELSE 0]

\* main up to the loop of gen_svg
MainBegin(r) ==
  /\ run[r].pc = "idle"
  /\ cur = 0
  /\ LET q == req[r]
         C == ArgC(q)
         size == ArgSize(q)
         svg_path == C \o <<".svg">>
         P == load_dictionary
         f0 == [run[r] EXCEPT !.C = C, !.size = size,
                              !.size_is_int = ArgSizeIsInt(q),
                              !.no_delete = q.no_delete, !.no_pdf = q.no_pdf,
                              !.svg_path = svg_path]
     IN  IF ~ArgSizeIsInt(q) THEN
           /\ fs' = FsWrite(fs, svg_path, NewPage)
           /\ run' = [run EXCEPT ![r] = Raise(f0, "TypeError", q.via)]
           /\ cur' = 0
         ELSE IF size = 0 THEN
           /\ fs' = FsWrite(fs, svg_path, NewPage)
           /\ run' = [run EXCEPT ![r] = Raise(f0, "ZeroDivisionError", q.via)]
           /\ cur' = 0
         ELSE IF \E k \in 1..Len(C) : C[k] \notin DOMAIN P THEN
           /\ fs' = FsWrite(fs, svg_path, NewPage)
           /\ run' = [run EXCEPT ![r] = Raise(f0, "KeyError", q.via)]
           /\ cur' = 0
         ELSE
           /\ fs' = FsWrite(fs, svg_path, [NewPage EXCEPT !.title = <<Header(C, P)>>])
           /\ run' = [run EXCEPT ![r] = [f0 EXCEPT !.pc = "loop"]]
           /\ cur' = r
  /\ UNCHANGED req

\* one iteration of the loop of gen_svg: next(gen_images_iter), which runs
\* gen_images to its next yield and get_image with it, then the placement
Pull(r) ==
  /\ run[r].pc = "loop"
  /\ cur = r
  /\ run[r].i < NumCells(run[r].size)
  /\ LET f == run[r]
         db == load_strokes_db
         P == load_dictionary
         g == Resume(f.g, f.C, db)
         f1 == [f EXCEPT !.pulls = f.pulls + 1]
     IN  IF g.at = "KeyError" THEN
           /\ run' = [run EXCEPT ![r] = Raise(f1, "KeyError", req[r].via)]
           /\ cur' = 0
           /\ fs' = fs
         ELSE IF Choices(g, f.C) = {} THEN
           /\ run' = [run EXCEPT ![r] = Raise(f1, "IndexError", req[r].via)]
           /\ cur' = 0
           /\ fs' = fs
         ELSE \E C \in Choices(g, f.C) :
           IF C \notin DOMAIN P THEN
             /\ run' = [run EXCEPT ![r] = Raise(f1, "KeyError", req[r].via)]
             /\ cur' = 0
             /\ fs' = fs
           ELSE
             LET a == Request(g, C, db)
                 key == <<a.C, a.img_num, a.skip_strokes, a.stop_at>>
                 res == get_image(a.C, a.img_num, f.images, a.strokes,
                                  a.skip_strokes, a.stop_at, P[C], fs)
                 page == res.files[f.svg_path]
             IN  /\ fs' = FsWrite(res.files, f.svg_path,
                          [page EXCEPT
                             !.slots = Append(page.slots, Placement(f.i, f.size)),
                             !.hrefs = IF res.fname \in Range(page.hrefs)
                                       THEN page.hrefs
                                       ELSE Append(page.hrefs, res.fname),
                             !.last = res.fname])
                 /\ run' = [run EXCEPT ![r] =
                      [f1 EXCEPT !.g = g, !.images = res.images, !.i = f.i + 1,
                                 !.refs = IF key \in DOMAIN f.refs THEN f.refs
                                          ELSE DictSet(f.refs, key,
                                                 [fname |-> res.fname,
                                                  wrote |-> res.wrote]),
                                 !.writes = IF res.wrote THEN Append(f.writes, key)
                                            ELSE f.writes,
                                 !.trace = Append(f.trace,
                                            IF g.at = "y3"
                                            THEN <<"?", a.img_num, a.skip_strokes,
                                                   a.stop_at>>
                                            ELSE key),
                                 !.last = [key |-> key, fname |-> res.fname,
                                           wrote |-> res.wrote,
                                           kind |-> IF g.at = "y3" THEN "review"
                                                    ELSE "drill"]]]
                 /\ cur' = r
  /\ UNCHANGED req

\* the end of gen_svg with main going on to gen_pdf whatever no_pdf is
LoopEnd_ignores_no_pdf(r) ==
  /\ run[r].pc = "loop"
  /\ cur = r
  /\ ~(run[r].i < NumCells(run[r].size))
  /\ fs' = FsWrite(fs, run[r].svg_path, [fs[run[r].svg_path] EXCEPT !.footer = TRUE])
  /\ run' = [run EXCEPT ![r].pc = "launch"]
  /\ cur' = 0
  /\ UNCHANGED req

\* the loop of gen_svg is exhausted: the footer is written, gen_svg returns
\* the manifest, and main returns (no_pdf) or calls gen_pdf, which suspends
\* at `await launch`
LoopEnd(r) ==
  /\ run[r].pc = "loop"
  /\ cur = r
  /\ ~(run[r].i < NumCells(run[r].size))
  /\ fs' = FsWrite(fs, run[r].svg_path, [fs[run[r].svg_path] EXCEPT !.footer = TRUE])
  /\ run' = [run EXCEPT ![r].pc = IF run[r].no_pdf THEN "done" ELSE "launch"]
  /\ cur' = 0
  /\ UNCHANGED req

\* gen_pdf resumes with the browser and asks it for the page
PdfGoto(r) ==
  /\ run[r].pc = "launch"
  /\ cur = 0
  /\ run' = [run EXCEPT ![r].pc = "goto"]
  /\ UNCHANGED <<fs, cur, req>>

\* the browser loads file://infile and the images it references
PdfLoad(r) ==
  /\ run[r].pc = "goto"
  /\ cur = 0
  /\ IF run[r].svg_path \notin DOMAIN fs
     THEN run' = [run EXCEPT ![r] = Raise(run[r], "PageError", req[r].via)]
     ELSE run' = [run EXCEPT ![r].pc = "print",
                             ![r].missing = Range(fs[run[r].svg_path].hrefs) \ DOMAIN fs]
  /\ UNCHANGED <<fs, cur, req>>

\* page.pdf writes outfile
PdfPrint(r) ==
  /\ run[r].pc = "print"
  /\ cur = 0
  /\ fs' = FsWrite(fs, run[r].C \o <<".pdf">>, [pdf_of |-> run[r].svg_path])
  /\ run' = [run EXCEPT ![r].pc = "close"]
  /\ UNCHANGED <<cur, req>>

\* open(C + '.pdf', 'rb') of gen(), after main has returned into frame f
Respond(f, files, via) ==
  IF via # "gen" THEN [f EXCEPT !.pc = "done"]
  ELSE IF (f.C \o <<".pdf">>) \in DOMAIN files
       THEN [f EXCEPT !.pc = "done", !.status = 200]
       ELSE Raise(f, "FileNotFoundError", via)

\* gen_pdf returns; main keeps or unlinks the files; gen() answers.  The
\* order in which set(images) is walked is not fixed: when a file is gone,
\* any of the others may have been unlinked before the error.
MainFinish(r) ==
  /\ run[r].pc = "close"
  /\ cur = 0
  /\ LET f == [run[r] EXCEPT !.converted = TRUE]
         via == req[r].via
         names == Range(f.images)
     IN  IF f.no_delete THEN
           /\ fs' = fs
           /\ run' = [run EXCEPT ![r] = Respond(f, fs, via)]
         ELSE IF ~(names \subseteq DOMAIN fs) THEN
           \E D \in SUBSET (names \cap DOMAIN fs) :
             /\ fs' = FsUnlink(fs, D)
             /\ run' = [run EXCEPT ![r] =
                          Raise([f EXCEPT !.deleted = D], "FileNotFoundError", via)]
         ELSE IF f.svg_path \notin DOMAIN fs THEN
           /\ fs' = FsUnlink(fs, names)
           /\ run' = [run EXCEPT ![r] =
                        Raise([f EXCEPT !.deleted = names], "FileNotFoundError", via)]
         ELSE
           /\ fs' = FsUnlink(fs, names \cup {f.svg_path})
           /\ run' = [run EXCEPT ![r] =
                        Respond([f EXCEPT !.deleted = names \cup {f.svg_path}],
                                fs', via)]
  /\ UNCHANGED <<cur, req>>

Next ==
  \E r \in Runs :
    \/ MainBegin(r)
    \/ Pull(r)
    \/ LoopEnd(r)
    \/ PdfGoto(r)
    \/ PdfLoad(r)
    \/ PdfPrint(r)
    \/ MainFinish(r)

\* one request, from the command line or to /gen
Spec == Init /\ [][Next]_vars

\* the requests of two overlapping /gen calls
ConcChars == {<<"a">>, <<"b">>, <<"a", "b">>, <<>>}
ConcRequests ==
  [via : {"gen"}, chars : ConcChars, size : {Dec(100), Dec(150)},
   no_delete : {FALSE}, no_pdf : {FALSE}]

InitConc ==
  /\ fs = EmptyDict
  /\ cur = 0
  /\ req \in [Runs -> ConcRequests]
  /\ run = [r \in Runs |-> Fresh("idle")]

\* two /gen requests served by one event loop
SpecConc == InitConc /\ [][Next]_vars

\* target lists with the character of many strokes, on a page of 704 cells
LongChars == {<<"h">>, <<"X", "h">>}
LongRequests ==
  [via : {"gen"}, chars : LongChars, size : {Dec(9)},
   no_delete : {FALSE}, no_pdf : {FALSE}]

InitLong ==
  /\ fs = EmptyDict
  /\ cur = 0
  /\ \E q \in LongRequests : req = [r \in Runs |-> IF r = 1 THEN q ELSE NoRequest]
  /\ run = [r \in Runs |-> IF r = 1 THEN Fresh("idle") ELSE Fresh("absent")]

\* one /gen request for a character with more strokes than the sentinel
SpecLong == InitLong /\ [][Next]_vars

\* two /gen requests with the same form, one after or during the other
PairChars == {<<"b", "e">>, <<"X", "e">>, <<"a">>}
PairRequests ==
  [via : {"gen"}, chars : PairChars, size : {Dec(30)},
   no_delete : {FALSE}, no_pdf : {FALSE}]

InitPair ==
  /\ fs = EmptyDict
  /\ cur = 0
  /\ \E q \in PairRequests : req = [r \in Runs |-> q]
  /\ run = [r \in Runs |-> Fresh("idle")]

\* two runs over the same target list and stores
SpecPair == InitPair /\ [][Next]_vars

TypeOK ==
  /\ cur \in Runs \cup {0}
  /\ \A r \in Runs : run[r].pc \in {"absent", "idle", "loop", "launch", "goto",
                                    "print", "close", "done", "failed"}

(* ------------------------------ properties ----------------------------- *)

Started(r) == run[r].pc \notin {"absent", "idle"}

\* the number of strokes the stroke store holds for c
StrokeCount(c) == Len(load_strokes_db[c])

InStrokeStore(C) == \A k \in 1..Len(C) : C[k] \in DOMAIN load_strokes_db
InPronunciationStore(C) == \A k \in 1..Len(C) : C[k] \in DOMAIN load_dictionary

RECURSIVE DrillTotal(_)
\* 6n drill requests for each character of the list
DrillTotal(C) ==
  IF Len(C) = 0 THEN 0 ELSE 6 * StrokeCount(Head(C)) + DrillTotal(Tail(C))

\* the length of one full pass: the drills and 10 reviews
PassLen(C) == DrillTotal(C) + 10

RECURSIVE DrillAt(_, _)
\* the character whose drill holds offset pos (0-based) of the drill part of
\* a pass, and the offset within that character's drill
DrillAt(C, pos) ==
  IF pos < 6 * StrokeCount(Head(C)) THEN [c |-> Head(C), off |-> pos]
  ELSE DrillAt(Tail(C), pos - 6 * StrokeCount(Head(C)))

\* pull number k (0-based) is a drill request
IsDrillPull(C, k) == (k % PassLen(C)) < DrillTotal(C)

\* the key of drill pull k: stroke off div 6, first three of the six are
\* step 1, the other three step 2
DrillKeyAt(C, k) ==
  LET d == DrillAt(C, k % PassLen(C))
      i == d.off \div 6
  IN  IF d.off % 6 < 3 THEN <<d.c, i, 0, i + 1>>
      ELSE <<d.c, 0, i + 1, NO_UPPER_BOUND>>

\* C1: with a non-empty target list whose characters are all in the stroke
\* store, every pull returns a cell, and pull k is a drill cell of the
\* character whose 6n block holds k mod (pass length), in input order, or one
\* of the 10 review cells that end each pass; the pattern repeats for as
\* long as cells are pulled.
C1_PassPattern ==
  \A r \in Runs :
    (Started(r) /\ Len(run[r].C) > 0 /\ InStrokeStore(run[r].C)) =>
      /\ run[r].pulls = run[r].i
      /\ run[r].i > 0 =>
           LET k == run[r].i - 1
           IN  IF IsDrillPull(run[r].C, k)
               THEN /\ run[r].last.kind = "drill"
                    /\ run[r].last.key[1] = DrillAt(run[r].C, k % PassLen(run[r].C)).c
               ELSE /\ run[r].last.kind = "review"
                    /\ run[r].last.key[1] \in Range(run[r].C)

\* the first drill cell of "b" in the second pass over "ab" has been pulled
C1_Witness ==
  \E r \in Runs :
    /\ run[r].C = <<"a", "b">>
    /\ run[r].i = PassLen(run[r].C) + 13
    /\ run[r].last.kind = "drill"
    /\ run[r].last.key[1] = "b"

\* C2: with a target list drawn from the stroke store, every drill request
\* is the one its position determines: within a character's drill stroke
\* indexes increase from 0, and stroke i gets three requests (i, 0, i+1)
\* followed by three requests (0, i+1, sentinel), and nothing else.
C2_DrillOrder ==
  \A r \in Runs :
    (Started(r) /\ InStrokeStore(run[r].C) /\ run[r].i > 0
       /\ run[r].last.kind = "drill") =>
      /\ IsDrillPull(run[r].C, run[r].i - 1)
      /\ run[r].last.key = DrillKeyAt(run[r].C, run[r].i - 1)

\* the last step-2 request of the second stroke of "a" has been emitted
C2_Witness ==
  \E r \in Runs :
    /\ run[r].C = <<"a">>
    /\ run[r].i = 12
    /\ run[r].last.key = <<"a", 0, 2, NO_UPPER_BOUND>>

\* the number of times key occurs in the sequence of rendered keys
Renders(r, key) == Cardinality({k \in 1..Len(run[r].writes) : run[r].writes[k] = key})

\* C3: within a run every requested cache key has been rendered exactly
\* once, by its first request; a repeated request returns the reference the
\* first one returned and writes nothing; the manifest holds one entry per
\* distinct key and no duplicate.
C3_CacheOnce ==
  \A r \in Runs :
    /\ \A key \in DOMAIN run[r].refs :
         /\ run[r].refs[key].wrote
         /\ Renders(r, key) = 1
         /\ Cardinality({k \in 1..Len(run[r].images) :
                           run[r].images[k] = run[r].refs[key].fname}) = 1
    /\ Range(run[r].writes) = DOMAIN run[r].refs
    /\ Len(run[r].images) = Cardinality(DOMAIN run[r].refs)
    /\ run[r].i > 0 =>
         /\ run[r].last.key \in DOMAIN run[r].refs
         /\ run[r].last.fname = run[r].refs[run[r].last.key].fname

\* a key is requested again: nothing is written
C3_Witness ==
  \E r \in Runs :
    /\ run[r].i > 1
    /\ ~run[r].last.wrote
    /\ Len(run[r].images) > 1
    /\ Len(run[r].writes) < run[r].i

\* slot k of a page of cells of the given size, in row-major order below the
\* header row
SlotOf(k, size) ==
  [x |-> (k % (PAGE_W \div size)) * size,
   y |-> ((k \div (PAGE_W \div size)) + 1) * size,
   w |-> size, h |-> size]

\* two placements share no area
Disjoint(a, b) ==
  \/ a.x + a.w <= b.x
  \/ b.x + b.w <= a.x
  \/ a.y + a.h <= b.y
  \/ b.y + b.h <= a.y

\* the number of content slots of a positive cell size
SlotCount(size) == (PAGE_W \div size) * ((PAGE_H \div size) - 1)

\* C4: for a positive cell size with at least one content slot, gen_svg
\* never pulls more than numPerRow * (numRows - 1) cells and has pulled
\* exactly that many when it returns; cell k is placed at slot k, below the
\* header row, inside the canvas and overlapping no earlier cell.
C4_Layout ==
  \A r \in Runs :
    (Started(r) /\ run[r].size_is_int /\ run[r].size > 0
       /\ SlotCount(run[r].size) >= 1 /\ run[r].svg_path \in DOMAIN fs) =>
      LET size == run[r].size
          slots == fs[run[r].svg_path].slots
          n == Len(slots)
      IN  /\ run[r].pulls <= SlotCount(size)
          /\ n = run[r].i
          /\ (run[r].pc \in {"launch", "goto", "print", "close", "done"}
                /\ run[r].deleted = {}) =>
               /\ run[r].pulls = SlotCount(size)
               /\ n = SlotCount(size)
          /\ n > 0 =>
               /\ slots[n] = SlotOf(n - 1, size)
               /\ slots[n].x >= 0 /\ slots[n].x + size <= PAGE_W
               /\ slots[n].y >= size /\ slots[n].y + size <= PAGE_H
               /\ \A j \in 1..(n - 1) : Disjoint(slots[j], slots[n])

\* the 580th cell of a page of cell size 10 is placed, in the last slot
C4_Witness ==
  \E r \in Runs :
    /\ run[r].size = 10
    /\ run[r].pc = "launch"
    /\ run[r].i = 580
    /\ Len(fs[run[r].svg_path].slots) = 580
    /\ fs[run[r].svg_path].slots[580] = [x |-> 190, y |-> 290, w |-> 10, h |-> 10]

\* a cell size the layout has to reject: not positive, or too large for one
\* column and one content row
InvalidSize(size) ==
  \/ size <= 0
  \/ PAGE_W \div size < 1
  \/ (PAGE_H \div size) - 1 < 1

PastLayout(r) == run[r].pc \in {"launch", "goto", "print", "close", "done"}

\* C5: with a cell size <= 0 or too large for a 1x1 content grid, gen_svg
\* ends in an error, pulls no cell and emits no page.
C5_InvalidSizeRejected ==
  \A r \in Runs :
    (Started(r) /\ run[r].size_is_int /\ InvalidSize(run[r].size)) =>
      /\ run[r].i = 0
      /\ ~PastLayout(r)
      /\ run[r].svg_path \in DOMAIN fs => ~fs[run[r].svg_path].footer

\* C6: with a target character that the stroke store lacks and a valid cell
\* size, the run fails with the lookup error of that character before any
\* cell is pulled or rendered: the manifest stays empty, no cell file is
\* written, and no page is completed.
C6_UnknownCharacterFirst ==
  \A r \in Runs :
    (Started(r) /\ run[r].size_is_int /\ ~InvalidSize(run[r].size)
       /\ ~InStrokeStore(run[r].C)) =>
      /\ run[r].i = 0
      /\ run[r].images = <<>>
      /\ DOMAIN fs \subseteq {run[r].svg_path}
      /\ ~PastLayout(r)
      /\ run[r].pc = "failed" => run[r].error = "KeyError"

\* C7: a target character of the stroke store without an entry in the
\* pronunciation store never makes the run fail.
C7_MissingLabelTolerated ==
  \A r \in Runs :
    (Started(r) /\ run[r].size_is_int /\ ~InvalidSize(run[r].size)
       /\ InStrokeStore(run[r].C) /\ ~InPronunciationStore(run[r].C)) =>
      /\ run[r].pc # "failed"
      /\ run[r].error = "none"

ZeroStrokes(c) == c \in DOMAIN load_strokes_db /\ StrokeCount(c) = 0

\* the first character of C that has strokes (C has one)
FirstWithStrokes(C) ==
  C[CHOOSE k \in 1..Len(C) :
      /\ ~ZeroStrokes(C[k])
      /\ \A j \in 1..(k - 1) : ZeroStrokes(C[j])]

\* C8: a target list from both stores that holds characters without strokes
\* raises no error; no drill request is ever made for such a character, the
\* pass goes on with the next character that has strokes, and a list of such
\* characters only yields review cells only.
C8_ZeroStrokes ==
  \A r \in Runs :
    (Started(r) /\ run[r].size_is_int /\ run[r].size # 0
       /\ InStrokeStore(run[r].C) /\ InPronunciationStore(run[r].C)
       /\ \E k \in 1..Len(run[r].C) : ZeroStrokes(run[r].C[k])) =>
      /\ run[r].error = "none"
      /\ run[r].pulls = run[r].i
      /\ run[r].last.kind = "drill" => ~ZeroStrokes(run[r].last.key[1])
      /\ run[r].i > 0 =>
           IF \A k \in 1..Len(run[r].C) : ZeroStrokes(run[r].C[k])
           THEN run[r].last.kind = "review"
           ELSE run[r].i = 1 =>
                  /\ run[r].last.kind = "drill"
                  /\ run[r].last.key = <<FirstWithStrokes(run[r].C), 0, 0, 1>>

\* the review cells of a third pass over two characters without strokes
C8_Witness ==
  \E r \in Runs :
    /\ run[r].C = <<"X", "e">>
    /\ run[r].i = 25
    /\ run[r].pulls = 25
    /\ run[r].last.kind = "review"

\* C9: two overlapping /gen runs do not interfere: the files a run has
\* rendered exist until its PDF conversion has finished, the browser finds
\* every file of the page, and cleanup and response raise no error.
C9_NoInterference ==
  \A r \in Runs :
    /\ run[r].pc \in {"loop", "launch", "goto", "print"} =>
         Range(run[r].images) \cup {run[r].svg_path} \subseteq DOMAIN fs
    /\ run[r].missing = {}
    /\ run[r].error \notin {"FileNotFoundError", "PageError"}

PdfPath(r) == run[r].C \o <<".pdf">>

\* the disposal policy of main, in a state
Disposal(r) ==
  /\ run[r].no_pdf =>
       /\ run[r].pc \notin {"launch", "goto", "print", "close"}
       /\ ~run[r].converted
       /\ PdfPath(r) \notin DOMAIN fs
       /\ run[r].deleted = {}
  /\ run[r].no_delete => run[r].deleted = {}
  /\ (run[r].pc = "done" /\ ~run[r].no_pdf) =>
       /\ run[r].converted
       /\ PdfPath(r) \in DOMAIN fs
  /\ run[r].deleted # {} =>
       /\ run[r].converted
       /\ PdfPath(r) \in DOMAIN fs
  /\ (run[r].pc = "done" /\ ~run[r].no_pdf /\ ~run[r].no_delete) =>
       run[r].deleted = Range(run[r].images) \cup {run[r].svg_path}

\* a step that removes a file is the last step of a main with both flags
\* clear, after gen_pdf; when main returns by it, nothing of the manifest and
\* no composite is left and the PDF is
DisposalStep ==
  /\ (DOMAIN fs \subseteq DOMAIN fs') \/
       \E r \in Runs :
         /\ run[r].pc = "close" /\ run'[r].pc \in {"done", "failed"}
         /\ ~run[r].no_delete /\ ~run[r].no_pdf
         /\ DOMAIN fs \ DOMAIN fs' \subseteq Range(run[r].images) \cup {run[r].svg_path}
  /\ \A r \in Runs :
       (run[r].pc = "close" /\ run'[r].pc = "done" /\ ~run[r].no_delete) =>
         /\ (Range(run[r].images) \cup {run[r].svg_path}) \cap DOMAIN fs' = {}
         /\ PdfPath(r) \in DOMAIN fs'

\* C10: with no_pdf no conversion starts and nothing is deleted; with
\* no_delete the PDF is made and nothing is deleted; with both clear files
\* are deleted only after the conversion, and when main returns the manifest
\* files and the composite are gone and the PDF is kept; no step of gen_svg,
\* gen_images or get_image removes a file.
C10_Disposal ==
  /\ [](\A r \in Runs : Started(r) => Disposal(r))
  /\ [][DisposalStep]_vars

\* main has returned with both flags clear after deleting a manifest of two
\* cell files and the composite
C10_Witness ==
  \E r \in Runs :
    /\ req[r].via = "cli"
    /\ run[r].pc = "done"
    /\ ~run[r].no_pdf /\ ~run[r].no_delete
    /\ Len(run[r].images) = 3
    /\ Cardinality(run[r].deleted) = 4
    /\ DOMAIN fs = {PdfPath(r)}

\* a /gen request that has to succeed: target list in both stores, cell
\* size with at least one slot
GoodGen(r) ==
  /\ req[r].via = "gen"
  /\ Started(r)
  /\ InStrokeStore(run[r].C) /\ InPronunciationStore(run[r].C)
  /\ ~InvalidSize(run[r].size)

\* the outcome of a good /gen request, in a state
GenOutcome(r) ==
  /\ req[r].chars = <<>> => run[r].C = <<"X">>
  /\ req[r].chars # <<>> => run[r].C = req[r].chars
  /\ req[r].size = <<>> => run[r].size = 10
  /\ run[r].pc # "failed"
  /\ run[r].error = "none"
  /\ run[r].status \in {0, 200}
  /\ run[r].status = 200 <=> run[r].pc = "done"
  /\ run[r].pc = "done" =>
       /\ run[r].converted
       /\ run[r].deleted = Range(run[r].images) \cup {run[r].svg_path}
       /\ PdfPath(r) \in DOMAIN fs

\* the order of the steps of a good /gen request: the page is complete when
\* the layout ends, complete and with all its cells when the browser loads
\* it, nothing is deleted before the PDF is written, and the PDF is there
\* before the cleanup and still there when it is read
GenOrder ==
  \A r \in Runs :
    GoodGen(r) =>
      /\ (run[r].pc = "loop" /\ run'[r].pc # "loop") =>
           /\ run'[r].pc = "launch"
           /\ fs'[run[r].svg_path].footer
           /\ Len(fs'[run[r].svg_path].slots) = SlotCount(run[r].size)
      /\ (run[r].pc = "goto" /\ run'[r].pc # "goto") =>
           /\ run'[r].pc = "print"
           /\ fs[run[r].svg_path].footer
           /\ Range(fs[run[r].svg_path].hrefs) \subseteq DOMAIN fs
           /\ run'[r].missing = {}
      /\ (run[r].pc = "print" /\ run'[r].pc # "print") =>
           /\ run[r].deleted = {} /\ run'[r].deleted = {}
           /\ PdfPath(r) \in DOMAIN fs'
      /\ (run[r].pc = "close" /\ run'[r].pc # "close") =>
           /\ PdfPath(r) \in DOMAIN fs
           /\ run'[r].pc = "done"
           /\ PdfPath(r) \in DOMAIN fs'
           /\ run'[r].status = 200

\* C11: a /gen request with a target list from both stores and a valid cell
\* size ends with status 200 after building the full page, converting it,
\* disposing of the temporary files and reading the PDF, in this order, and
\* the PDF exists when it is read; missing chars are served as 'X' and a
\* missing size as 10.
C11_GenSucceeds ==
  /\ [](\A r \in Runs : GoodGen(r) => GenOutcome(r))
  /\ [][GenOrder]_vars

\* the request without chars and size is answered with 200 after a page of
\* 580 cells of 'X'
C11_Witness ==
  \E r \in Runs :
    /\ req[r].via = "gen" /\ req[r].chars = <<>> /\ req[r].size = <<>>
    /\ run[r].C = <<"X">>
    /\ run[r].i = 580
    /\ run[r].pc = "done"
    /\ run[r].status = 200
    /\ DOMAIN fs = {PdfPath(r)}

\* piece j (1-based) of the header of target list C: entry k takes the
\* pieces 5k-4 .. 5k-1 (character, " (", label, ")") and is followed by ", "
\* unless it is the last
HeaderPiece(C, j) ==
  LET k == ((j - 1) \div 5) + 1
      m == (j - 1) % 5
  IN  CASE m = 0 -> C[k]
        [] m = 1 -> " ("
        [] m = 2 -> load_dictionary[C[k]]
        [] m = 3 -> ")"
        [] m = 4 -> ", "

\* the header text of the page of run r is the one of its target list
HeaderIsOf(r) ==
  LET page == fs[run[r].svg_path]
      C == run[r].C
  IN  /\ Len(page.title) = 1
      /\ Len(page.title[1]) = (IF Len(C) = 0 THEN 0 ELSE 5 * Len(C) - 1)
      /\ \A j \in 1..Len(page.title[1]) : page.title[1][j] = HeaderPiece(C, j)

\* C12: once gen_svg is in its loop the page carries the header of the
\* target list: one entry 'C (label)' per element, in input order, repeated
\* characters repeated, joined by ', '; it is the same for every cell size
\* and stays the same whatever cells are pulled.
C12_Header ==
  \A r \in Runs :
    (Started(r) /\ run[r].svg_path \in DOMAIN fs
       /\ (run[r].pc = "loop" \/ PastLayout(r))) =>
      HeaderIsOf(r)

\* the header of "aa" on a page on which cells have been placed
C12_Witness ==
  \E r \in Runs :
    /\ run[r].C = <<"a", "a">>
    /\ run[r].i = 20
    /\ run[r].svg_path \in DOMAIN fs
    /\ fs[run[r].svg_path].title =
         << <<"a", " (", "A1", ")", ", ", "a", " (", "A1", ")">> >>

\* the last request of run r is a step-1 drill request (nothing skipped)
\* whose cell file is in place
LastIsStep1(r) ==
  /\ run[r].pc = "loop"
  /\ run[r].i > 0
  /\ run[r].last.kind = "drill"
  /\ run[r].last.key[3] = 0
  /\ run[r].last.fname \in DOMAIN fs

\* C13: the cell of a step-1 drill request with emphasisIndex i shows the
\* strokes 0..i, draws stroke i heavy and every other shown stroke with
\* normal weight.
C13_OnlyLearnedStrokeHeavy ==
  \A r \in Runs :
    LastIsStep1(r) =>
      LET i == run[r].last.key[2]
          paths == fs[run[r].last.fname].paths
      IN  /\ {paths[k].n : k \in 1..Len(paths)} = 0..i
          /\ \A k \in 1..Len(paths) :
               paths[k].width = (IF paths[k].n = i THEN HEAVY ELSE NORMAL)

\* the last request of run r is a step-2 drill request (strokes skipped,
\* no upper bound) whose cell file is in place
LastIsStep2(r) ==
  /\ run[r].pc = "loop"
  /\ run[r].i > 0
  /\ run[r].last.kind = "drill"
  /\ run[r].last.key[3] > 0
  /\ run[r].last.fname \in DOMAIN fs

\* C14: the cell of a step-2 request for stroke i of a character with n
\* strokes shows exactly the strokes i+1..n-1, whatever n is, none of them
\* heavy; for i = n-1 it shows none.
C14_Step2ShowsRest ==
  \A r \in Runs :
    LastIsStep2(r) =>
      LET i == run[r].last.key[3] - 1
          n == StrokeCount(run[r].last.key[1])
          paths == fs[run[r].last.fname].paths
      IN  /\ {paths[k].n : k \in 1..Len(paths)} = (i + 1)..(n - 1)
          /\ \A k \in 1..Len(paths) : paths[k].width = NORMAL

\* what the last request of run r asks get_image to render: a drill request
\* passes the strokes of its character, a review request the empty list
Requested(r) ==
  LET key == run[r].last.key
  IN  CellContent(key[2],
                  IF run[r].last.kind = "review" THEN <<>>
                  ELSE load_strokes_db[key[1]],
                  key[3], key[4], load_dictionary[key[1]])

\* C15: the file a request is answered with, rendered by the first request
\* with the same key, holds the strokes, widths and label that this request
\* asks for, also when a review request meets a key first used by a drill
\* request.
C15_RenderPureInKey ==
  \A r \in Runs :
    (run[r].pc = "loop" /\ run[r].i > 0 /\ run[r].last.fname \in DOMAIN fs) =>
      fs[run[r].last.fname] = Requested(r)

\* a review request for "h" is answered with the file that the step-2 drill
\* request of stroke 98 rendered under the same key
C15_Witness ==
  \E r \in Runs :
    /\ run[r].C = <<"h">>
    /\ run[r].i = 601
    /\ run[r].last.kind = "review"
    /\ run[r].last.key = <<"h", 0, NO_UPPER_BOUND, NO_UPPER_BOUND>>
    /\ ~run[r].last.wrote
    /\ run[r].last.key \in Range(run[r].writes)
    /\ Len(run[r].writes) = 200

\* the next pull of run r yields a review cell for character c
ReviewPull(r, c) ==
  /\ Pull(r)
  /\ run'[r].last.kind = "review"
  /\ run'[r].last.key[1] = c

\* run r is about to pull a review cell: its next pull falls in the last 10
\* of a pass
AtReviewSlot(r) ==
  /\ run[r].pc = "loop"
  /\ cur = r
  /\ Len(run[r].C) > 0
  /\ InStrokeStore(run[r].C)
  /\ run[r].i < NumCells(run[r].size)
  /\ ~IsDrillPull(run[r].C, run[r].i)

\* C16: a review request is for a character of the target list with
\* skipCount = stopIndex = sentinel; its cell shows no stroke and carries the
\* pronunciation of that character; at every review slot, whatever was
\* chosen before, every character of the target list can be chosen.
C16_Review ==
  \A r \in Runs :
    /\ (run[r].pc = "loop" /\ run[r].i > 0 /\ run[r].last.kind = "review"
          /\ run[r].last.fname \in DOMAIN fs) =>
         LET key == run[r].last.key
         IN  /\ key[1] \in Range(run[r].C)
             /\ key[3] = NO_UPPER_BOUND /\ key[4] = NO_UPPER_BOUND
             /\ fs[run[r].last.fname].paths = <<>>
             /\ fs[run[r].last.fname].text = load_dictionary[key[1]]
    /\ AtReviewSlot(r) =>
         \A c \in Range(run[r].C) : ENABLED ReviewPull(r, c)

\* the last review slot of a pass over "be", after both characters have
\* been chosen in this pass and with "b" chosen last
C16_Witness ==
  \E r \in Runs :
    /\ run[r].C = <<"b", "e">>
    /\ run[r].i = 16
    /\ run[r].last.kind = "review"
    /\ run[r].last.key[1] = "b"
    /\ Len(run[r].images) = 4

\* the shorter of two lengths
Min(a, b) == IF a < b THEN a ELSE b

\* C17: two runs over the same target list agree at every position they
\* both reached on whether the cell is a drill or a review cell and, for a
\* drill cell, on the whole key; only the character of a review cell may
\* differ.
C17_Deterministic ==
  \A r1, r2 \in Runs :
    (Started(r1) /\ Started(r2) /\ run[r1].C = run[r2].C) =>
      \A k \in 1..Min(Len(run[r1].trace), Len(run[r2].trace)) :
        run[r1].trace[k] = run[r2].trace[k]

\* two runs over "be" have both pulled the 54 cells of their page, drills and
\* reviews, and their 16th cells are review cells of different characters
C17_Witness ==
  /\ \A r \in Runs : run[r].C = <<"b", "e">> /\ run[r].i = 54
  /\ run[1].trace[5][1] = "b" /\ run[1].trace[16][1] = "?"
  /\ run[1].images # run[2].images
  /\ run[1].last.key = run[2].last.key

\* the number of cache keys a character can produce: two per stroke and the
\* review key
KeyCount(c) ==
  IF c \in DOMAIN load_strokes_db THEN 2 * StrokeCount(c) + 1 ELSE 1

RECURSIVE KeyBound(_)
\* the number of distinct keys the characters of the set S can produce
KeyBound(S) ==
  IF S = {} THEN 0
  ELSE LET c == CHOOSE x \in S : TRUE IN KeyCount(c) + KeyBound(S \ {c})

\* the references of the cells requested so far
PlacedRefs(r) == {run[r].refs[k].fname : k \in DOMAIN run[r].refs}

\* C18: while the page of a run exists, the manifest is the list of the
\* references placed on it so far in order of first use: every placed
\* reference is listed, nothing else is, nothing is listed twice, and the
\* manifest is no longer than the number of cells pulled nor than the number
\* of distinct keys of the target list (2n + 1 per distinct character).
C18_Manifest ==
  \A r \in Runs :
    (Started(r) /\ run[r].svg_path \in DOMAIN fs) =>
      /\ run[r].images = fs[run[r].svg_path].hrefs
      /\ Range(run[r].images) = PlacedRefs(r)
      /\ Cardinality(Range(run[r].images)) = Len(run[r].images)
      /\ \A k \in 1..Len(run[r].images) : run[r].images[k] \in DOMAIN fs
      /\ Len(run[r].images) <= run[r].i
      /\ Len(run[r].images) <= KeyBound(Range(run[r].C))

\* the page of "ab" is full: 54 cells placed, most of them repeats, and the
\* manifest lists eight references, the bound of the list
C18_Witness ==
  \E r \in Runs :
    /\ run[r].C = <<"a", "b">> /\ run[r].pc = "loop" /\ run[r].i = 54
    /\ Len(run[r].images) = 8
    /\ KeyBound(Range(run[r].C)) = 8

\* a run over the empty target list whose layout has at least one slot
EmptyList(r) ==
  /\ Started(r) /\ run[r].C = <<>>
  /\ run[r].size_is_int /\ run[r].size > 0 /\ NumCells(run[r].size) > 0

\* C19: with an empty target list and a layout of at least one slot, the
\* first pull from gen_images is made and ends the run with IndexError; no
\* second pull follows, no cell is placed or rendered, no cell file exists
\* and the manifest stays empty.
C19_EmptyList ==
  \A r \in Runs :
    EmptyList(r) =>
      /\ run[r].pc \in {"loop", "failed"}
      /\ run[r].pc = "loop" => run[r].pulls = 0 /\ ENABLED Pull(r)
      /\ run[r].pc = "failed" => run[r].pulls = 1 /\ run[r].error = "IndexError"
      /\ run[r].i = 0
      /\ run[r].images = <<>>
      /\ run[r].writes = <<>>
      /\ DOMAIN fs \subseteq {run[r].svg_path}

\* the run over the empty list has made its one pull and failed
C19_Witness ==
  \E r \in Runs :
    /\ EmptyList(r)
    /\ run[r].pulls = 1
    /\ run[r].pc = "failed" /\ run[r].error = "IndexError"

====
